---- MODULE Spec2Model ----
(***************************************************************************)
(* A model of octocov's config package (src/config/config.go): the Config  *)
(* object, the file system and environment it reads, and its operations    *)
(* New, Setwd, Load, Loaded, Build, DatastoreConfigReady,                  *)
(* BuildDatastoreConfig, Accepptable, CoverageColor, CodeToTestRatioColor. *)
(*                                                                         *)
(* A Go string is a sequence of tokens (<<>> is ""): a token is a path     *)
(* element, a separator "/", a "%" sign, a "$NAME" reference, a lexeme of  *)
(* the expression language, or an opaque word.  A float64 is a record      *)
(* [nan, v]: v counts tenths (percentages) or hundredths (ratios).         *)
(***************************************************************************)
EXTENDS Integers, Sequences, FiniteSets, TLC

VARIABLES
    c,          \* the Config object
    fs,         \* the files below the process's current directory
    environ,    \* the process environment
    ret,        \* what the latest operation was given and what it returned
    last,       \* the operation before the latest one: its name, and whether
                \* it returned without an error
    stderr,     \* the diagnostic the latest operation wrote ("" for none)
    everLoaded  \* history: some Load has read and parsed a file

vars == <<c, fs, environ, ret, last, stderr, everLoaded>>

Empty == <<>>

(***************************************************************************)
(* Strings and paths                                                       *)
(***************************************************************************)
RECURSIVE Count(_, _)
\* strings.Count(s, tok)
Count(s, tok) ==
    IF s = Empty THEN 0
    ELSE (IF Head(s) = tok THEN 1 ELSE 0) + Count(Tail(s), tok)

RECURSIVE Elements(_)
\* the path elements of s: what filepath.Clean keeps between separators
Elements(s) ==
    IF s = Empty THEN Empty
    ELSE IF Head(s) \in {"/", "."} THEN Elements(Tail(s))
    ELSE <<Head(s)>> \o Elements(Tail(s))

RECURSIVE Slashed(_)
\* the elements joined by single separators
Slashed(es) ==
    IF es = Empty THEN Empty
    ELSE IF Len(es) = 1 THEN es
    ELSE <<Head(es), "/">> \o Slashed(Tail(es))

Rooted(s) == s # Empty /\ Head(s) = "/"

\* filepath.Clean
Clean(s) ==
    IF Rooted(s) THEN <<"/">> \o Slashed(Elements(s))
    ELSE IF Elements(s) = Empty THEN <<".">>
    ELSE Slashed(Elements(s))

\* filepath.Join(a, b): empty elements are ignored, the result is cleaned
Join(a, b) ==
    IF a = Empty /\ b = Empty THEN Empty
    ELSE IF a = Empty THEN Clean(b)
    ELSE IF b = Empty THEN Clean(a)
    ELSE Clean(a \o <<"/">> \o b)

RECURSIVE UpToLastSlash(_)
\* filepath.Split's directory part: s up to and including its last separator
UpToLastSlash(s) ==
    IF s = Empty THEN Empty
    ELSE IF s[Len(s)] = "/" THEN s
    ELSE UpToLastSlash(SubSeq(s, 1, Len(s) - 1))

\* filepath.Dir
Dir(s) == Clean(UpToLastSlash(s))

(***************************************************************************)
(* The Config object                                                       *)
(***************************************************************************)
defaultBranch == <<"main">>
defaultReportsDir == <<"reports">>
DefaultConfigFilePaths == << <<".octocov.yml">>, <<"octocov.yml">> >>

NoGithub == [set |-> FALSE, Repository |-> Empty, Branch |-> Empty, Path |-> Empty]
NoDatastore == [set |-> FALSE, If |-> Empty, Github |-> NoGithub]
NoCodeToTestRatio ==
    [set |-> FALSE, Code |-> [isNil |-> TRUE, elems |-> Empty],
     Test |-> [isNil |-> TRUE, elems |-> Empty], Badge |-> [Path |-> Empty]]
NoCentral ==
    [set |-> FALSE, Enable |-> FALSE, Reports |-> Empty, Badges |-> Empty,
     Root |-> Empty]

\* New(), with wd what os.Getwd returned ("" when it failed: the error is dropped)
New(wd) ==
    [Repository |-> Empty,
     Coverage |-> [Path |-> Empty, Badge |-> [Path |-> Empty], Acceptable |-> Empty],
     CodeToTestRatio |-> NoCodeToTestRatio,
     Datastore |-> NoDatastore,
     Central |-> NoCentral,
     wd |-> wd,
     path |-> Empty]

\* Config.Getwd
Getwd(cfg) == cfg.wd

\* Config.Setwd
Setwd(cfg, p) == [cfg EXCEPT !.wd = p]

\* Config.Loaded
Loaded(cfg) == cfg.path # Empty

\* Config.Root
Root(cfg) == IF cfg.path # Empty THEN Dir(cfg.path) ELSE cfg.wd

(***************************************************************************)
(* The file system.  The process's current directory is CurrentDir; fs     *)
(* gives each file name below it an entry: absent, a directory, or a       *)
(* regular file holding a document.  A document is what yaml.Unmarshal     *)
(* makes of the bytes: a syntax error, or the keys it sets.                *)
(***************************************************************************)
CurrentDir == <<"/", "w">>

FileNames ==
    {<<".octocov.yml">>, <<"octocov.yml">>, <<"sub", "/", "c.yml">>}

BadDoc == [valid |-> FALSE, hasCoveragePath |-> FALSE, coveragePath |-> Empty]
PlainDoc == [valid |-> TRUE, hasCoveragePath |-> FALSE, coveragePath |-> Empty]
CoverageDoc ==
    [valid |-> TRUE, hasCoveragePath |-> TRUE, coveragePath |-> <<"cov">>]
EmptyCoverageDoc ==
    [valid |-> TRUE, hasCoveragePath |-> TRUE, coveragePath |-> Empty]
Docs == {BadDoc, PlainDoc, CoverageDoc, EmptyCoverageDoc}

Absent == [kind |-> "absent", doc |-> BadDoc]
Directory == [kind |-> "dir", doc |-> BadDoc]
RegularFile(doc) == [kind |-> "file", doc |-> doc]
Entries == {Absent, Directory} \cup {RegularFile(d) : d \in Docs}

\* the name below CurrentDir that path p denotes (Empty: outside of it)
Relative(p) ==
    LET q == Clean(p)
        n == Len(CurrentDir)
    IN  IF ~Rooted(q) THEN (IF q = <<".">> THEN Empty ELSE q)
        ELSE IF Len(q) > n + 1 /\ SubSeq(q, 1, n) = CurrentDir
        THEN SubSeq(q, n + 2, Len(q))
        ELSE Empty

\* os.Stat / ioutil.ReadFile: the entry at path p
Lookup(files, p) ==
    IF Relative(p) \in DOMAIN files THEN files[Relative(p)] ELSE Absent

\* os.Stat(p) succeeds and the result is not a directory
IsRegular(files, p) == Lookup(files, p).kind = "file"

(***************************************************************************)
(* Config.Load                                                             *)
(***************************************************************************)
\* a scan that settles two matches by the order of the list
ScanDefaults_FirstWins(cfg, files, i, path) ==
    LET m == {j \in i..Len(DefaultConfigFilePaths) :
                 IsRegular(files, Join(cfg.wd, DefaultConfigFilePaths[j]))}
    IN  [dup |-> FALSE,
         path |-> IF m = {} THEN path
                  ELSE DefaultConfigFilePaths[CHOOSE j \in m : \A k \in m : j <= k],
         names |-> <<>>]

RECURSIVE ScanDefaults(_, _, _, _)
\* the loop over DefaultConfigFilePaths, from index i with `path` so far
ScanDefaults(cfg, files, i, path) ==
    IF i > Len(DefaultConfigFilePaths) THEN [dup |-> FALSE, path |-> path, names |-> <<>>]
    ELSE LET p == DefaultConfigFilePaths[i]
         IN  IF IsRegular(files, Join(cfg.wd, p))
             THEN IF path # Empty
                  THEN [dup |-> TRUE, path |-> path, names |-> <<path, p>>]
                  ELSE ScanDefaults(cfg, files, i + 1, p)
             ELSE ScanDefaults(cfg, files, i + 1, path)

\* yaml.Unmarshal(buf, c) for a well-formed document: a key the document
\* does not hold leaves its field as it was
Unmarshal(cfg, doc) ==
    IF doc.hasCoveragePath
    THEN [cfg EXCEPT !.Coverage.Path = doc.coveragePath]
    ELSE cfg

\* a Load that defaults coverage.path to the working directory
ReadAndParse_DefaultsToWd(cfg, files) ==
    LET e == Lookup(files, Clean(cfg.path))
    IN  IF e.kind # "file"
        THEN [c |-> cfg, err |-> "io", names |-> <<>>, read |-> Empty, parsed |-> FALSE]
        ELSE IF ~e.doc.valid
        THEN [c |-> cfg, err |-> "parse", names |-> <<>>, read |-> Clean(cfg.path),
              parsed |-> FALSE]
        ELSE LET u == Unmarshal(cfg, e.doc)
                 d == IF u.Coverage.Path = Empty
                      THEN [u EXCEPT !.Coverage.Path = u.wd]
                      ELSE u
             IN  [c |-> d, err |-> "nil", names |-> <<>>, read |-> Clean(cfg.path),
                  parsed |-> TRUE]

\* the part of Load after the path is set: read, parse, default coverage.path
ReadAndParse(cfg, files) ==
    LET e == Lookup(files, Clean(cfg.path))
    IN  IF e.kind # "file"
        THEN [c |-> cfg, err |-> "io", names |-> <<>>, read |-> Empty, parsed |-> FALSE]
        ELSE IF ~e.doc.valid
        THEN [c |-> cfg, err |-> "parse", names |-> <<>>, read |-> Clean(cfg.path),
              parsed |-> FALSE]
        ELSE LET u == Unmarshal(cfg, e.doc)
                 d == IF u.Coverage.Path = Empty
                      THEN [u EXCEPT !.Coverage.Path = Dir(u.path)]
                      ELSE u
             IN  [c |-> d, err |-> "nil", names |-> <<>>, read |-> Clean(cfg.path),
                  parsed |-> TRUE]

\* Config.Load(path): the Config afterwards, the error returned, the names
\* a duplicate error carries, the file read, and whether a file was parsed
Load(cfg, files, path) ==
    LET s == IF path = Empty
             THEN ScanDefaults(cfg, files, 1, Empty)
             ELSE [dup |-> FALSE, path |-> path, names |-> <<>>]
    IN  IF s.dup
        THEN [c |-> cfg, err |-> "duplicate", names |-> s.names, read |-> Empty,
              parsed |-> FALSE]
        ELSE IF s.path = Empty
        THEN [c |-> [cfg EXCEPT !.Coverage.Path = cfg.wd], err |-> "nil",
              names |-> <<>>, read |-> Empty, parsed |-> FALSE]
        ELSE ReadAndParse([cfg EXCEPT !.path = Join(cfg.wd, s.path)], files)

\* what `last` keeps of an operation
Summary(r) == [op |-> r.op, ok |-> r.ok]

\* nothing written to os.Stderr
NoDiag == [kind |-> "none", text |-> Empty]

(***************************************************************************)
(* Loading: New, then Setwd and Load in any order, over a fixed file tree  *)
(***************************************************************************)
WorkingDirs == {Empty, <<".">>, CurrentDir}
ExplicitPaths == {Empty, <<"octocov.yml">>, <<"sub", "/", "c.yml">>, <<"missing.yml">>}
NoEnviron == [n \in {} |-> Empty]

\* the trees the behaviours start from: every kind of entry for each
\* candidate name, every document in octocov.yml and sub/c.yml
FileTrees ==
    {t \in [FileNames -> Entries] :
        /\ t[<<"sub", "/", "c.yml">>].kind # "dir"
        /\ t[<<".octocov.yml">>].kind = "file" => t[<<".octocov.yml">>].doc = PlainDoc}

InitLoad ==
    /\ \E wd \in {Empty, CurrentDir} : c = New(wd)
    /\ fs \in FileTrees
    /\ environ = NoEnviron
    /\ ret = [op |-> "New", ok |-> TRUE]
    /\ last = [op |-> "none", ok |-> TRUE]
    /\ stderr = NoDiag
    /\ everLoaded = FALSE

DoSetwd ==
    \E p \in WorkingDirs :
        /\ c' = Setwd(c, p)
        /\ ret' = [op |-> "Setwd", ok |-> TRUE, arg |-> p]
        /\ last' = Summary(ret)
        /\ UNCHANGED <<fs, environ, stderr, everLoaded>>

DoLoad ==
    \E p \in ExplicitPaths :
        LET r == Load(c, fs, p)
        IN  /\ c' = r.c
            /\ ret' = [op |-> "Load", ok |-> r.err = "nil", arg |-> p, entry |-> c,
                       err |-> r.err,
                       names |-> r.names, read |-> r.read, parsed |-> r.parsed]
            /\ last' = Summary(ret)
            /\ everLoaded' = (everLoaded \/ r.parsed)
            /\ UNCHANGED <<fs, environ, stderr>>

NextLoad == DoSetwd \/ DoLoad

SpecLoad == InitLoad /\ [][NextLoad]_vars

(***************************************************************************)
(* Claims about Load                                                       *)
(***************************************************************************)
\* the default candidates that are regular files below working directory wd
Matching(wd) ==
    {i \in DOMAIN DefaultConfigFilePaths :
        Lookup(fs, Join(wd, DefaultConfigFilePaths[i])).kind = "file"}

\* C1: Load("") with both candidates existing as regular files returns the
\* duplicate error naming both, reads no file and leaves the Config alone;
\* whatever the candidates are (file, directory, absent), Load("") reads a
\* candidate only when it is the only one that matches, and returns the
\* duplicate error only when both match.
Thm_C1_DuplicateNeverResolved ==
    (ret.op = "Load" /\ ret.arg = Empty) =>
        LET m == Matching(ret.entry.wd)
        IN  /\ Cardinality(m) = 2 =>
                /\ ret.err = "duplicate"
                /\ ret.names = DefaultConfigFilePaths
                /\ ret.read = Empty
                /\ c = ret.entry
            /\ ret.read # Empty =>
                /\ Cardinality(m) = 1
                /\ \A i \in m :
                     ret.read = Join(ret.entry.wd, DefaultConfigFilePaths[i])
            /\ ret.err = "duplicate" => Cardinality(m) = 2
            /\ Cardinality(m) = 0 => ret.err = "nil" /\ ret.read = Empty

\* C1 happens: Load("") has met two regular candidate files
Wit_C1_BothCandidates ==
    /\ ret.op = "Load" /\ ret.arg = Empty
    /\ Cardinality(Matching(ret.entry.wd)) = 2
    /\ ret.err = "duplicate"

\* C2 (as claimed): Loaded() is true if and only if some Load has read and
\* parsed a config file; the resolved path stays empty whenever none has.
Orig_C2_LoadedIffFileLoaded ==
    /\ Loaded(c) <=> everLoaded
    /\ ~everLoaded => c.path = Empty

\* the last element of path p
Base(p) == <<p[Len(p)]>>

\* C3 (as claimed): after a Load that returns nil, coverage.path is not
\* empty and is the working directory when no explicit path was given and no
\* candidate matched, the directory holding the resolved file when a file
\* was loaded whose document does not set coverage.path, and the document's
\* value when the document sets it.
Orig_C3_CoveragePathAfterLoad ==
    (ret.op = "Load" /\ ret.err = "nil") =>
        /\ c.Coverage.Path # Empty
        /\ ~ret.parsed => c.Coverage.Path = ret.entry.wd
        /\ ret.parsed =>
            LET doc == Lookup(fs, ret.read).doc
            IN  IF doc.hasCoveragePath /\ doc.coveragePath # Empty
                THEN c.Coverage.Path = doc.coveragePath
                ELSE Join(c.Coverage.Path, Base(c.path)) = c.path

\* C3 (amended): after a Load that returns nil, coverage.path is
\*   the working directory (empty exactly when the working directory is)
\*     when no explicit path was given and no candidate matched;
\*   the document's value when a file was loaded whose document sets it to
\*     a value that is not empty;
\*   the value it had on entry, left by an earlier Load, when a file was
\*     loaded whose document does not set it and that value is not empty;
\*   the directory holding the resolved file, never empty, otherwise.
Thm_C3_CoveragePathAfterLoad ==
    (ret.op = "Load" /\ ret.err = "nil") =>
        /\ ~ret.parsed =>
            /\ ret.arg = Empty /\ Matching(ret.entry.wd) = {}
            /\ c.Coverage.Path = ret.entry.wd
        /\ ret.parsed =>
            LET doc == Lookup(fs, ret.read).doc
            IN  IF doc.hasCoveragePath /\ doc.coveragePath # Empty
                THEN c.Coverage.Path = doc.coveragePath
                ELSE IF ~doc.hasCoveragePath /\ ret.entry.Coverage.Path # Empty
                THEN c.Coverage.Path = ret.entry.Coverage.Path
                ELSE /\ c.Coverage.Path # Empty
                     /\ Join(c.Coverage.Path, Base(c.path)) = c.path

\* C3 happens: a loaded file's directory, not the working directory, has
\* become coverage.path
Wit_C3_DefaultedToFileDir ==
    /\ ret.op = "Load" /\ ret.err = "nil" /\ ret.parsed
    /\ ~Lookup(fs, ret.read).doc.hasCoveragePath
    /\ ret.entry.Coverage.Path = Empty
    /\ c.Coverage.Path # ret.entry.wd

(***************************************************************************)
(* Config.Build: environment expansion                                     *)
(***************************************************************************)
VarNames == {"A", "B", "GITHUB_REPOSITORY"}

\* the reference tokens and the variable each names
RefName == ("$A" :> "A") @@ ("$B" :> "B") @@ ("$GITHUB_REPOSITORY" :> "GITHUB_REPOSITORY")

\* os.Getenv: "" for a variable that is not set
Getenv(env, name) == IF name \in DOMAIN env THEN env[name] ELSE Empty

RECURSIVE ExpandEnv(_, _)
\* os.ExpandEnv: one pass over s, each $NAME replaced by the variable's
\* value; the value put in is not scanned again
ExpandEnv(s, env) ==
    IF s = Empty THEN Empty
    ELSE (IF Head(s) \in DOMAIN RefName
          THEN Getenv(env, RefName[Head(s)])
          ELSE <<Head(s)>>) \o ExpandEnv(Tail(s), env)

\* a nil slice becomes an empty one
NonNil(slice) == IF slice.isNil THEN [isNil |-> FALSE, elems |-> Empty] ELSE slice

\* Config.Build
Build(cfg, env) ==
    LET r == ExpandEnv(cfg.Repository, env)
        g == cfg.Datastore.Github
    IN  [cfg EXCEPT
            !.Repository = IF r = Empty THEN Getenv(env, "GITHUB_REPOSITORY") ELSE r,
            !.Datastore.Github =
                IF cfg.Datastore.set /\ g.set
                THEN [g EXCEPT !.Repository = ExpandEnv(g.Repository, env),
                               !.Branch = ExpandEnv(g.Branch, env),
                               !.Path = ExpandEnv(g.Path, env)]
                ELSE g,
            !.Coverage.Badge.Path = ExpandEnv(cfg.Coverage.Badge.Path, env),
            !.CodeToTestRatio =
                IF cfg.CodeToTestRatio.set
                THEN [cfg.CodeToTestRatio EXCEPT !.Code = NonNil(@), !.Test = NonNil(@)]
                ELSE cfg.CodeToTestRatio,
            !.Central =
                IF cfg.Central.set
                THEN [cfg.Central EXCEPT !.Root = ExpandEnv(@, env),
                                         !.Reports = ExpandEnv(@, env),
                                         !.Badges = ExpandEnv(@, env)]
                ELSE cfg.Central]

(***************************************************************************)
(* Building: a parsed Config, an environment, and Build called repeatedly  *)
(***************************************************************************)
OwnerRepo == <<"acme", "/", "widgets">>

\* values of the string fields: empty, plain, one reference, text and a reference
FieldStrings == {Empty, OwnerRepo, <<"$A">>, <<"x", "$B">>}

\* environments: variables unset, set to plain text, set to text that
\* itself holds a reference
Environs ==
    {e \in [VarNames -> {Empty, <<"v">>, OwnerRepo, <<"$B">>}] :
        /\ e["A"] \in {Empty, <<"v">>, <<"$B">>}
        /\ e["B"] \in {Empty, <<"v">>}
        /\ e["GITHUB_REPOSITORY"] \in {Empty, OwnerRepo, <<"$B">>}}

GithubTargets ==
    {NoGithub} \cup
    {[set |-> TRUE, Repository |-> s, Branch |-> s, Path |-> s] : s \in FieldStrings}

Datastores ==
    {NoDatastore} \cup
    {[set |-> TRUE, If |-> <<"$A">>, Github |-> g] : g \in GithubTargets}

Slices == {[isNil |-> TRUE, elems |-> Empty], [isNil |-> FALSE, elems |-> << <<"**.go">> >>]}

CodeToTestRatios ==
    {NoCodeToTestRatio} \cup
    {[set |-> TRUE, Code |-> k, Test |-> t, Badge |-> [Path |-> Empty]] :
        k \in Slices, t \in Slices}

Centrals ==
    {NoCentral} \cup
    {[set |-> TRUE, Enable |-> TRUE, Reports |-> s, Badges |-> s, Root |-> s] :
        s \in {Empty, <<"x", "$B">>}}

InitBuild ==
    /\ \E r \in FieldStrings, b \in {Empty, <<"$A">>}, d \in Datastores,
          t \in CodeToTestRatios, n \in Centrals :
          c = [New(CurrentDir) EXCEPT !.Repository = r, !.Coverage.Badge.Path = b,
                                      !.Datastore = d, !.CodeToTestRatio = t,
                                      !.Central = n]
    /\ fs = [n \in FileNames |-> Absent]
    /\ environ \in Environs
    /\ ret = [op |-> "New", ok |-> TRUE]
    /\ last = [op |-> "none", ok |-> TRUE]
    /\ stderr = NoDiag
    /\ everLoaded = FALSE

DoBuild ==
    /\ c' = Build(c, environ)
    /\ ret' = [op |-> "Build", ok |-> TRUE, entry |-> c]
    /\ last' = Summary(ret)
    /\ UNCHANGED <<fs, environ, stderr, everLoaded>>

NextBuild == DoBuild

SpecBuild == InitBuild /\ [][NextBuild]_vars

\* C8 (as claimed): calling Build twice yields the same Config as calling
\* it once, whatever sections are present and whatever the environment holds.
Orig_C8_BuildIdempotent ==
    (ret.op = "Build" /\ last.op = "Build") => c = ret.entry

(***************************************************************************)
(* expr.Eval on a token sequence.  The part of the expression language     *)
(* modelled: the literals true, false, 1, 2, parentheses, the binary       *)
(* operator == (left associative) and the conditional a ? b : c and        *)
(* a ?: c, which the parser reads only at the lowest precedence, after     *)
(* the binary operators.  Eval parses, compiles without a type check, and  *)
(* runs; a value is a boolean, an integer, or a run-time error.            *)
(***************************************************************************)
BoolValue(b) == [k |-> "bool", v |-> IF b THEN 1 ELSE 0]
IntValue(n) == [k |-> "int", v |-> n]
ErrValue == [k |-> "err", v |-> 0]

Parsed(val, i) == [ok |-> TRUE, val |-> val, i |-> i]
SyntaxError == [ok |-> FALSE, val |-> ErrValue, i |-> 0]

\* the token at position i, "EOF" past the end
Token(t, i) == IF i \in DOMAIN t THEN t[i] ELSE "EOF"

IntLiterals == ("1" :> 1) @@ ("2" :> 2)

\* the == operator at run time: values of different types are unequal
Equal(a, b) ==
    IF a.k = "err" \/ b.k = "err" THEN ErrValue ELSE BoolValue(a = b)

\* the conditional at run time: the condition must be a boolean, and only
\* the branch taken is evaluated
Conditional(cond, a, b) ==
    IF cond.k # "bool" THEN ErrValue ELSE IF cond.v = 1 THEN a ELSE b

RECURSIVE ParsePrimary(_, _), ParseBinary(_, _, _), ParseConditional(_, _, _),
          ParseExpression(_, _)

\* a literal or a parenthesised expression starting at position i
ParsePrimary(t, i) ==
    LET tok == Token(t, i)
    IN  IF tok \in {"true", "false"} THEN Parsed(BoolValue(tok = "true"), i + 1)
        ELSE IF tok \in DOMAIN IntLiterals THEN Parsed(IntValue(IntLiterals[tok]), i + 1)
        ELSE IF tok = "("
        THEN LET r == ParseExpression(t, i + 1)
             IN  IF r.ok /\ Token(t, r.i) = ")" THEN Parsed(r.val, r.i + 1)
                 ELSE SyntaxError
        ELSE SyntaxError

\* the loop over binary operators: left, then any number of "== primary"
ParseBinary(t, left, i) ==
    IF Token(t, i) = "=="
    THEN LET r == ParsePrimary(t, i + 1)
         IN  IF r.ok THEN ParseBinary(t, Equal(left, r.val), r.i) ELSE SyntaxError
    ELSE Parsed(left, i)

\* the loop over "?": node ? e1 : e2, or node ?: e2
ParseConditional(t, node, i) ==
    IF Token(t, i) # "?" THEN Parsed(node, i)
    ELSE IF Token(t, i + 1) = ":"
    THEN LET e2 == ParseExpression(t, i + 2)
         IN  IF e2.ok THEN ParseConditional(t, Conditional(node, node, e2.val), e2.i)
             ELSE SyntaxError
    ELSE LET e1 == ParseExpression(t, i + 1)
         IN  IF e1.ok /\ Token(t, e1.i) = ":"
             THEN LET e2 == ParseExpression(t, e1.i + 1)
                  IN  IF e2.ok
                      THEN ParseConditional(t, Conditional(node, e1.val, e2.val), e2.i)
                      ELSE SyntaxError
             ELSE SyntaxError

\* an expression at the lowest precedence
ParseExpression(t, i) ==
    LET p == ParsePrimary(t, i)
    IN  IF ~p.ok THEN SyntaxError
        ELSE LET b == ParseBinary(t, p.val, p.i)
             IN  IF ~b.ok THEN SyntaxError ELSE ParseConditional(t, b.val, b.i)

\* expr.Eval(input, variables): the value, or ErrValue for a syntax or
\* run-time error
Eval(t) ==
    LET r == ParseExpression(t, 1)
    IN  IF r.ok /\ r.i = Len(t) + 1 THEN r.val ELSE ErrValue

\* fmt.Sprintf("(%s) == true", cond)
Wrap(cond) == <<"(">> \o cond \o <<")", "==", "true">>

(***************************************************************************)
(* Config.DatastoreConfigReady                                             *)
(***************************************************************************)
\* the value returned, what is written to os.Stderr, and whether the type
\* assertion doOrNot.(bool) panics
DatastoreConfigReady(cfg) ==
    IF ~cfg.Datastore.set
    THEN [val |-> FALSE, diag |-> NoDiag, panic |-> FALSE]
    ELSE IF cfg.Datastore.If = Empty
    THEN [val |-> TRUE, diag |-> NoDiag, panic |-> FALSE]
    ELSE LET cond == cfg.Datastore.If
             doOrNot == Eval(Wrap(cond))
         IN  IF doOrNot.k = "err"
             THEN [val |-> FALSE, diag |-> [kind |-> "error", text |-> Empty],
                   panic |-> FALSE]
             ELSE IF doOrNot.k # "bool"
             THEN [val |-> FALSE, diag |-> NoDiag, panic |-> TRUE]
             ELSE IF doOrNot.v # 1
             THEN [val |-> FALSE, diag |-> [kind |-> "skip", text |-> cond],
                   panic |-> FALSE]
             ELSE [val |-> TRUE, diag |-> NoDiag, panic |-> FALSE]

(***************************************************************************)
(* Config.BuildDatastoreConfig                                             *)
(***************************************************************************)
\* defaulting that also puts a configured path below the reports directory
DefaultDatastore_PrefixesPath(cfg) ==
    LET g == cfg.Datastore.Github
        b == IF g.Branch = Empty THEN defaultBranch ELSE g.Branch
        p == IF g.Path = Empty /\ cfg.Repository # Empty
             THEN defaultReportsDir \o <<"/">> \o cfg.Repository \o <<"/", "report.json">>
             ELSE IF g.Path # Empty THEN defaultReportsDir \o <<"/">> \o g.Path
             ELSE g.Path
    IN  [cfg EXCEPT !.Datastore.Github.Branch = b, !.Datastore.Github.Path = p]

\* the defaults filled in before the checks: branch, then path
DefaultDatastore(cfg) ==
    LET g == cfg.Datastore.Github
        b == IF g.Branch = Empty THEN defaultBranch ELSE g.Branch
        p == IF g.Path = Empty /\ cfg.Repository # Empty
             THEN defaultReportsDir \o <<"/">> \o cfg.Repository \o <<"/", "report.json">>
             ELSE g.Path
    IN  [cfg EXCEPT !.Datastore.Github.Branch = b, !.Datastore.Github.Path = p]

\* checks that accept any repository holding a "/"
ValidateDatastore_AnySlashes(cfg) ==
    LET g == cfg.Datastore.Github
    IN  IF g.Repository = Empty THEN "datastore.github.repository not set"
        ELSE IF Count(g.Repository, "/") = 0
        THEN "datastore.github.repository should be 'owner/repo'"
        ELSE IF g.Branch = Empty THEN "datastore.github.branch not set"
        ELSE IF g.Path = Empty THEN "datastore.github.path not set"
        ELSE "nil"

\* checks that look at the path before the repository
ValidateDatastore_PathFirst(cfg) ==
    LET g == cfg.Datastore.Github
    IN  IF g.Path = Empty THEN "datastore.github.path not set"
        ELSE IF g.Repository = Empty THEN "datastore.github.repository not set"
        ELSE IF Count(g.Repository, "/") # 1
        THEN "datastore.github.repository should be 'owner/repo'"
        ELSE IF g.Branch = Empty THEN "datastore.github.branch not set"
        ELSE "nil"

\* the checks after defaulting, in the order of the code
ValidateDatastore(cfg) ==
    LET g == cfg.Datastore.Github
    IN  IF g.Repository = Empty THEN "datastore.github.repository not set"
        ELSE IF Count(g.Repository, "/") # 1
        THEN "datastore.github.repository should be 'owner/repo'"
        ELSE IF g.Branch = Empty THEN "datastore.github.branch not set"
        ELSE IF g.Path = Empty THEN "datastore.github.path not set"
        ELSE "nil"

\* the Config afterwards and the error returned; with no datastore section
\* the read of c.Datastore.Github is a nil dereference
BuildDatastoreConfig(cfg) ==
    IF ~cfg.Datastore.set THEN [c |-> cfg, err |-> "nil", panic |-> TRUE]
    ELSE IF ~cfg.Datastore.Github.set
    THEN [c |-> cfg, err |-> "datastore.github not set", panic |-> FALSE]
    ELSE [c |-> DefaultDatastore(cfg), err |-> ValidateDatastore(DefaultDatastore(cfg)),
          panic |-> FALSE]

(***************************************************************************)
(* Storing: a built Config whose datastore section is decided and          *)
(* validated, each any number of times                                     *)
(***************************************************************************)
\* gating expressions: none, true and false ones, non-booleans, a syntax
\* error, and a text whose parentheses close and reopen the wrapper's
Conditions ==
    {Empty,
     <<"true">>,
     <<"1", "==", "1">>,
     <<"1", "==", "2">>,
     <<"true", "?", "true", ":", "false">>,
     <<"1">>,
     <<"(">>,
     <<"1", "?", "1", ":", "2">>,
     <<"true", ")", "?", "1", ":", "(", "2">>}

RootRepositories == {Empty, OwnerRepo}

TargetRepositories ==
    {Empty, <<"ownerrepo">>, <<"owner", "/", "repo">>, <<"a", "/", "b", "/", "c">>}

StoreTargets ==
    {NoGithub} \cup
    {[set |-> TRUE, Repository |-> r, Branch |-> b, Path |-> q] :
        r \in TargetRepositories, b \in {Empty, <<"dev">>},
        q \in {Empty, <<"r.json">>}}

InitStore ==
    /\ \E r \in RootRepositories :
          \/ c = [New(CurrentDir) EXCEPT !.Repository = r]
          \/ \E i \in Conditions, g \in StoreTargets :
                c = [New(CurrentDir) EXCEPT
                        !.Repository = r,
                        !.Datastore = [set |-> TRUE, If |-> i, Github |-> g]]
    /\ fs = [n \in FileNames |-> Absent]
    /\ environ = NoEnviron
    /\ ret = [op |-> "New", ok |-> TRUE]
    /\ last = [op |-> "none", ok |-> TRUE]
    /\ stderr = NoDiag
    /\ everLoaded = FALSE

DoDatastoreConfigReady ==
    LET r == DatastoreConfigReady(c)
    IN  /\ ret' = [op |-> "DatastoreConfigReady", ok |-> ~r.panic, entry |-> c,
                   val |-> r.val, panic |-> r.panic]
        /\ stderr' = r.diag
        /\ last' = Summary(ret)
        /\ UNCHANGED <<c, fs, environ, everLoaded>>

DoBuildDatastoreConfig ==
    LET r == BuildDatastoreConfig(c)
    IN  /\ c' = r.c
        /\ ret' = [op |-> "BuildDatastoreConfig", ok |-> ~r.panic /\ r.err = "nil",
                   entry |-> c, err |-> r.err, panic |-> r.panic]
        /\ stderr' = NoDiag
        /\ last' = Summary(ret)
        /\ UNCHANGED <<fs, environ, everLoaded>>

NextStore == DoDatastoreConfigReady \/ DoBuildDatastoreConfig

SpecStore == InitStore /\ [][NextStore]_vars

(***************************************************************************)
(* Claims about the datastore section                                      *)
(***************************************************************************)
\* the gating expression on its own evaluates to the boolean true
EvaluatesTrue(cond) == Eval(cond) = BoolValue(TRUE)

\* the gating expression on its own fails to parse or to run
EvaluationFails(cond) == Eval(cond).k = "err"

\* C4 (as claimed): with a datastore section, DatastoreConfigReady returns
\* true exactly when datastore.if is empty or evaluates to the boolean true,
\* and false otherwise, never panicking; it writes nothing when the
\* expression is empty or met, the evaluator's error when evaluation fails,
\* and the "Skip storing the report" line naming the expression when the
\* evaluation yields a value that is not true.
Orig_C4_ReadyDecision ==
    (ret.op = "DatastoreConfigReady" /\ ret.entry.Datastore.set) =>
        LET cond == ret.entry.Datastore.If
        IN  /\ ~ret.panic
            /\ ret.val <=> (cond = Empty \/ EvaluatesTrue(cond))
            /\ ret.val => stderr = NoDiag
            /\ (cond # Empty /\ EvaluationFails(cond)) => stderr.kind = "error"
            /\ (cond # Empty /\ ~EvaluationFails(cond) /\ ~EvaluatesTrue(cond)) =>
                    stderr = [kind |-> "skip", text |-> cond]

\* the datastore target a BuildDatastoreConfig call was given
EntryTarget == ret.entry.Datastore.Github

\* C5: when BuildDatastoreConfig returns nil, datastore.github is present,
\* its repository holds exactly one "/", its branch is not empty and is
\* "main" if it was empty on entry, and its path is not empty and is
\* reports/<root repository>/report.json if it was empty on entry.
Thm_C5_ValidAfterBuild ==
    (ret.op = "BuildDatastoreConfig" /\ ~ret.panic /\ ret.err = "nil") =>
        LET g == c.Datastore.Github
        IN  /\ g.set
            /\ Cardinality({i \in DOMAIN g.Repository : g.Repository[i] = "/"}) = 1
            /\ g.Branch # Empty
            /\ EntryTarget.Branch = Empty => g.Branch = <<"main">>
            /\ g.Path # Empty
            /\ EntryTarget.Path = Empty =>
                  g.Path = <<"reports", "/">> \o c.Repository \o <<"/", "report.json">>

\* C5 happens: a nil return after branch and path were both defaulted
Wit_C5_DefaultsFilled ==
    /\ ret.op = "BuildDatastoreConfig" /\ ~ret.panic /\ ret.err = "nil"
    /\ EntryTarget.Branch = Empty /\ EntryTarget.Path = Empty
    /\ c.Datastore.Github.Path = <<"reports", "/", "acme", "/", "widgets", "/", "report.json">>

\* the number of "/" in s
Slashes(s) == Cardinality({i \in DOMAIN s : s[i] = "/"})

\* the error the priority order gives for the Config as it is on entry
FirstViolation(cfg) ==
    LET g == cfg.Datastore.Github
    IN  CASE ~g.set -> "datastore.github not set"
          [] g.set /\ g.Repository = Empty -> "datastore.github.repository not set"
          [] g.set /\ g.Repository # Empty /\ Slashes(g.Repository) # 1 ->
                "datastore.github.repository should be 'owner/repo'"
          [] g.set /\ Slashes(g.Repository) = 1 /\ g.Repository # Empty
                /\ g.Path = Empty /\ cfg.Repository = Empty ->
                "datastore.github.path not set"
          [] OTHER -> "nil"

\* C6: BuildDatastoreConfig returns the error of the first violated check
\* in the order: github absent, repository empty, repository without
\* exactly one "/", branch empty, path empty (only when the path was empty
\* and the root repository is empty); "branch not set" is never returned.
Thm_C6_FirstViolation ==
    (ret.op = "BuildDatastoreConfig" /\ ~ret.panic) =>
        /\ ret.err = FirstViolation(ret.entry)
        /\ ret.err # "datastore.github.branch not set"

\* C6 happens: two checks are violated and the earlier one is reported
Wit_C6_RepositoryBeforePath ==
    /\ ret.op = "BuildDatastoreConfig" /\ ~ret.panic
    /\ EntryTarget.Repository = <<"a", "/", "b", "/", "c">>
    /\ EntryTarget.Path = Empty /\ ret.entry.Repository = Empty
    /\ ret.err = "datastore.github.repository should be 'owner/repo'"

\* C7: a BuildDatastoreConfig call that immediately follows one that
\* returned nil returns nil too and changes no field of the Config.
Thm_C7_BuildDatastoreIdempotent ==
    (/\ ret.op = "BuildDatastoreConfig"
     /\ last.op = "BuildDatastoreConfig" /\ last.ok) =>
        /\ ~ret.panic
        /\ ret.err = "nil"
        /\ c = ret.entry

\* C7 happens: a second call right after one that defaulted the branch
Wit_C7_SecondCall ==
    /\ ret.op = "BuildDatastoreConfig"
    /\ last.op = "BuildDatastoreConfig" /\ last.ok
    /\ ret.entry.Datastore.Github.Branch = defaultBranch
    /\ ret.err = "nil"

(***************************************************************************)
(* Floating-point values, Accepptable and the colors                       *)
(***************************************************************************)
Float(v) == [nan |-> FALSE, v |-> v]
NaN == [nan |-> TRUE, v |-> 0]

\* x < y and x >= y on float64: both false when either side is NaN
Less(x, y) == ~x.nan /\ ~y.nan /\ x.v < y.v
GreaterEq(x, y) == ~x.nan /\ ~y.nan /\ x.v >= y.v

\* strings.TrimSuffix(s, "%"): one trailing "%" removed
TrimPercent(s) ==
    IF s # Empty /\ s[Len(s)] = "%" THEN SubSeq(s, 1, Len(s) - 1) ELSE s

\* the decimal literals of the model and their values in percent
Decimals == ("0" :> 0) @@ ("60" :> 60) @@ ("75" :> 75) @@ ("100" :> 100)

\* strconv.ParseFloat(s, 64): a decimal literal, or "NaN", and nothing else
ParseFloat(s) ==
    IF Len(s) = 1 /\ s[1] \in DOMAIN Decimals
    THEN [ok |-> TRUE, val |-> Float(Decimals[s[1]])]
    ELSE IF s = <<"NaN">> THEN [ok |-> TRUE, val |-> NaN]
    ELSE [ok |-> FALSE, val |-> NaN]

\* a comparison that also fails a percentage equal to the threshold
BelowAccepted_Inclusive(percent, a) == ~percent.nan /\ ~a.nan /\ percent.v <= a.v

\* whether the actual percentage fails the threshold a
BelowAccepted(percent, a) == Less(percent, a)

\* Config.Accepptable(r), with percent what r.CoveragePercent() returns: the
\* kind of error returned and the two values its message states
Accepptable(cfg, percent) ==
    IF cfg.Coverage.Acceptable = Empty
    THEN [err |-> "nil", actual |-> percent, accepted |-> NaN]
    ELSE LET a == ParseFloat(TrimPercent(cfg.Coverage.Acceptable))
         IN  IF ~a.ok THEN [err |-> "parse", actual |-> percent, accepted |-> NaN]
             ELSE IF BelowAccepted(percent, a.val)
             THEN [err |-> "below", actual |-> percent, accepted |-> a.val]
             ELSE [err |-> "nil", actual |-> percent, accepted |-> a.val]

green == "#97CA00"
yellowgreen == "#A4A61D"
yellow == "#DFB317"
orange == "#FE7D37"
red == "#E05D44"

\* the lower bounds of the percentage bands
CoverGreen == 80
CoverYellowgreen == 60
CoverYellow == 40
CoverOrange == 20

\* the lower bounds of the ratio bands, in tenths
RatioGreen == 12
RatioYellowgreen == 10
RatioYellow == 8
RatioOrange == 6

\* whether a value reaches a band's lower bound
Reaches(x, bound) == GreaterEq(x, Float(bound))

\* bands whose lower bounds are exclusive
CoverageColor_Exclusive(cover) ==
    IF ~cover.nan /\ cover.v > CoverGreen THEN green
    ELSE IF ~cover.nan /\ cover.v > CoverYellowgreen THEN yellowgreen
    ELSE IF ~cover.nan /\ cover.v > CoverYellow THEN yellow
    ELSE IF ~cover.nan /\ cover.v > CoverOrange THEN orange
    ELSE red

\* Config.CoverageColor
CoverageColor(cover) ==
    IF Reaches(cover, CoverGreen) THEN green
    ELSE IF Reaches(cover, CoverYellowgreen) THEN yellowgreen
    ELSE IF Reaches(cover, CoverYellow) THEN yellow
    ELSE IF Reaches(cover, CoverOrange) THEN orange
    ELSE red

\* Config.CodeToTestRatioColor
CodeToTestRatioColor(ratio) ==
    IF Reaches(ratio, RatioGreen) THEN green
    ELSE IF Reaches(ratio, RatioYellowgreen) THEN yellowgreen
    ELSE IF Reaches(ratio, RatioYellow) THEN yellow
    ELSE IF Reaches(ratio, RatioOrange) THEN orange
    ELSE red

(***************************************************************************)
(* Grading: a Config with a threshold, and the three operations applied    *)
(* to values of every band                                                 *)
(***************************************************************************)
\* the greatest percentage and the greatest ratio (in tenths) tried
MaxPercent == 100
MaxRatio == 15

Percents == {Float(v) : v \in 0..MaxPercent}
Covers == {Float(v) : v \in -1..MaxPercent} \cup {NaN}
Ratios == {Float(v) : v \in -1..MaxRatio} \cup {NaN}

Acceptables ==
    {Empty, <<"75", "%">>, <<"75">>, <<"0">>, <<"100", "%">>, <<"60", "%">>,
     <<"NaN">>, <<"NaN", "%">>, <<"75", "%", "%">>, <<"%">>, <<"%", "75">>,
     <<"abc">>, <<"75", "abc">>}

InitGrade ==
    /\ \E a \in Acceptables : c = [New(CurrentDir) EXCEPT !.Coverage.Acceptable = a]
    /\ fs = [n \in FileNames |-> Absent]
    /\ environ = NoEnviron
    /\ ret = [op |-> "New", ok |-> TRUE]
    /\ last = [op |-> "none", ok |-> TRUE]
    /\ stderr = NoDiag
    /\ everLoaded = FALSE

DoAccepptable ==
    \E percent \in Percents :
        LET r == Accepptable(c, percent)
        IN  /\ ret' = [op |-> "Accepptable", ok |-> r.err = "nil", arg |-> percent,
                       err |-> r.err, actual |-> r.actual, accepted |-> r.accepted]
            /\ last' = Summary(ret)
            /\ UNCHANGED <<c, fs, environ, stderr, everLoaded>>

DoCoverageColor ==
    \E cover \in Covers :
        /\ ret' = [op |-> "CoverageColor", ok |-> TRUE, arg |-> cover,
                   color |-> CoverageColor(cover)]
        /\ last' = Summary(ret)
        /\ UNCHANGED <<c, fs, environ, stderr, everLoaded>>

DoCodeToTestRatioColor ==
    \E ratio \in Ratios :
        /\ ret' = [op |-> "CodeToTestRatioColor", ok |-> TRUE, arg |-> ratio,
                   color |-> CodeToTestRatioColor(ratio)]
        /\ last' = Summary(ret)
        /\ UNCHANGED <<c, fs, environ, stderr, everLoaded>>

NextGrade == DoAccepptable \/ DoCoverageColor \/ DoCodeToTestRatioColor

SpecGrade == InitGrade /\ [][NextGrade]_vars

(***************************************************************************)
(* Claims about Accepptable and the colors                                 *)
(***************************************************************************)
\* the threshold strings that are a number with at most one trailing "%"
WellFormed(s) ==
    \E lit \in DOMAIN Decimals \cup {"NaN"} : s = <<lit>> \/ s = <<lit, "%">>

\* the number a well-formed threshold string states
Threshold(s) == IF s[1] = "NaN" THEN NaN ELSE Float(Decimals[s[1]])

\* C9 (as claimed): Accepptable returns nil exactly when the threshold is
\* empty, or is well formed and the actual percentage is greater than or
\* equal to it; the acceptance failure, stating both values, when the actual
\* percentage is strictly below it; and a parse error when it is malformed.
Orig_C9_AcceptableOutcome ==
    ret.op = "Accepptable" =>
        LET s == c.Coverage.Acceptable
        IN  /\ ret.err = "nil" <=>
                (s = Empty \/ (WellFormed(s) /\ GreaterEq(ret.arg, Threshold(s))))
            /\ ret.err = "below" <=>
                (s # Empty /\ WellFormed(s) /\ Less(ret.arg, Threshold(s)))
            /\ ret.err = "below" =>
                (ret.actual = ret.arg /\ ret.accepted = Threshold(s))
            /\ ret.err = "parse" <=> (s # Empty /\ ~WellFormed(s))

\* C9 (amended): Accepptable returns nil exactly when the threshold is
\* empty, or is well formed and the actual percentage is not strictly below
\* it (so always when the threshold is NaN); the acceptance failure, stating
\* both values, when the actual percentage is strictly below it; and a parse
\* error when it is malformed.
Thm_C9_AcceptableOutcome ==
    ret.op = "Accepptable" =>
        LET s == c.Coverage.Acceptable
        IN  /\ ret.err = "nil" <=>
                (s = Empty \/ (WellFormed(s) /\ ~Less(ret.arg, Threshold(s))))
            /\ ret.err = "below" <=>
                (s # Empty /\ WellFormed(s) /\ Less(ret.arg, Threshold(s)))
            /\ ret.err = "below" =>
                (ret.actual = ret.arg /\ ret.accepted = Threshold(s))
            /\ ret.err = "parse" <=> (s # Empty /\ ~WellFormed(s))

\* C9 happens: "75%" against an actual 70.0
Wit_C9_BelowThreshold ==
    /\ ret.op = "Accepptable" /\ c.Coverage.Acceptable = <<"75", "%">>
    /\ ret.arg = Float(70) /\ ret.err = "below"

\* the five colors, lowest band first
BandOrder == <<red, orange, yellow, yellowgreen, green>>
Band(color) == CHOOSE i \in DOMAIN BandOrder : BandOrder[i] = color

\* the band whose lower bound is the highest one that x reaches (bounds
\* lists the lower bounds of orange, yellow, yellowgreen, green)
HighestReached(x, bounds) ==
    LET reached == {i \in DOMAIN bounds : ~x.nan /\ x.v >= bounds[i]}
    IN  IF reached = {} THEN 1
        ELSE 1 + (CHOOSE i \in reached : \A j \in reached : j <= i)

CoverBounds == <<CoverOrange, CoverYellow, CoverYellowgreen, CoverGreen>>
RatioBounds == <<RatioOrange, RatioYellow, RatioYellowgreen, RatioGreen>>

\* C10: CoverageColor and CodeToTestRatioColor give every value the color of
\* the highest lower bound it reaches (red when it reaches none), a value on
\* a bound getting the higher band and the value just below it the next lower
\* one, and no smaller value gets a higher band.
Thm_C10_Bands ==
    /\ ret.op = "CoverageColor" =>
        /\ ret.color = BandOrder[HighestReached(ret.arg, CoverBounds)]
        /\ \A i \in DOMAIN CoverBounds :
              ret.arg = Float(CoverBounds[i] - 1) => Band(ret.color) = i
        /\ \A w \in Covers :
              (~w.nan /\ ~ret.arg.nan /\ w.v <= ret.arg.v) =>
                  Band(CoverageColor(w)) <= Band(ret.color)
    /\ ret.op = "CodeToTestRatioColor" =>
        /\ ret.color = BandOrder[HighestReached(ret.arg, RatioBounds)]
        /\ \A i \in DOMAIN RatioBounds :
              ret.arg = Float(RatioBounds[i] - 1) => Band(ret.color) = i
        /\ \A w \in Ratios :
              (~w.nan /\ ~ret.arg.nan /\ w.v <= ret.arg.v) =>
                  Band(CodeToTestRatioColor(w)) <= Band(ret.color)

\* C10 happens: a value on a lower bound has been graded, after a ratio
Wit_C10_OnBoundary ==
    /\ ret.op = "CoverageColor" /\ ret.arg = Float(CoverYellowgreen)
    /\ ret.color = yellowgreen
    /\ last.op = "CodeToTestRatioColor"

====
